---------------------------- MODULE Spec2Model ----------------------------
(***************************************************************************)
(* Model of plugins/tvm802_kicad_plugin.py: the CSV reconciliation core of *)
(* the TVM802 pick-and-place exporter (schema detection, BOM index,        *)
(* template key list, machine-data writer).                                *)
(*                                                                         *)
(* A Python str is a sequence of characters; a character is a one-letter   *)
(* TLA+ string, except the byte-order-mark characters, which are written   *)
(* "uFEFF" (the decoded mark U+FEFF), "xEF" "xBB" "xBF" (the raw UTF-8     *)
(* bytes read as Latin-1) and "xCF" (the upper case of "xEF").  A CSV file *)
(* is the sequence of rows csv.reader yields, a row a sequence of cells.   *)
(***************************************************************************)
EXTENDS Integers, Sequences, FiniteSets, TLC

VARIABLES
    pc,                 \* position of the run being modelled
    header,             \* _detect_pos_format: the header row handed to it
    detected,           \* _detect_pos_format: the value returned
    bom_file,           \* read_bom_ref_to_component_key: rows of the BOM CSV
    bom_i,              \* read_bom_ref_to_component_key: rows consumed so far
    ref_to_key,         \* read_bom_ref_to_component_key: the mapping built
    pos_file,           \* rows of the placement CSV (header row first)
    bom_ref_to_key,     \* [given, map]: the optional BOM mapping of the run
    cfeeders,           \* the feeder catalog: key -> <<feeder,nozzle,speed,height>>
    feeders_file,       \* read_feeder_component_mappings: rows of the feeders CSV
    feeders_i,          \* read_feeder_component_mappings: rows consumed so far
    firstline,          \* read_feeder_component_mappings: firstline
    result_file,        \* TVM802FeedersTemplatePlugin.Run: the template written (<<>>: none)
    mark1_ref,          \* explicit mark-1 override (<<>> when None or "")
    mark2_ref,          \* explicit mark-2 override (<<>> when None or "")
    skip_no_feeder,     \* gen_machine_data's skip_no_feeder
    components,         \* the key list the template generator returned
    fid_refs,           \* what collect_fid_refs returned
    pos_i,              \* gen_machine_data: rows consumed so far (header included)
    fmt,                \* gen_machine_data: the detected schema
    pcb_mark1,          \* gen_machine_data: <<pcb_mark1_x, pcb_mark1_y>>
    pcb_mark2,          \* gen_machine_data: <<pcb_mark2_x, pcb_mark2_y>>
    rows_total,         \* gen_machine_data: rows_total
    rows_with_feeders,  \* gen_machine_data: rows_with_feeders
    outfile,            \* gen_machine_data: the data rows written so far
    lookups,            \* gen_machine_data: each cfeeders.get so far, [row, key]
    mark_hits,          \* gen_machine_data: per consumed row, which mark it set (0: none)
    result              \* gen_machine_data: the value returned

vars == <<pc, feeders_file, feeders_i, firstline, result_file, header, detected, bom_file,
          bom_i, ref_to_key, pos_file,
          bom_ref_to_key, cfeeders, mark1_ref, mark2_ref, skip_no_feeder,
          components, fid_refs, pos_i, fmt, pcb_mark1, pcb_mark2, rows_total,
          rows_with_feeders, outfile, lookups, mark_hits, result>>

\* the locals of read_feeder_component_mappings, apart from cfeeders
feeder_vars == <<feeders_file, feeders_i, firstline>>

-----------------------------------------------------------------------------
(* Python str operations, as the code uses them.                           *)

\* str.isspace() of one character (the whitespace str.strip() removes):
\* "x0B" is the vertical tab, "x1C".."x1F" the separators, "x85" and "xA0"
\* the Latin-1 next-line and no-break space, "u...." the Unicode spaces
Whitespace ==
    {" ", "\t", "\n", "\r", "\f", "x0B", "x1C", "x1D", "x1E", "x1F", "x85", "xA0",
     "u1680", "u2000", "u2001", "u2002", "u2003", "u2004", "u2005", "u2006",
     "u2007", "u2008", "u2009", "u200A", "u2028", "u2029", "u202F", "u205F",
     "u3000"}

LowerLetters ==
    <<"a","b","c","d","e","f","g","h","i","j","k","l","m",
      "n","o","p","q","r","s","t","u","v","w","x","y","z","xEF">>

UpperLetters ==
    <<"A","B","C","D","E","F","G","H","I","J","K","L","M",
      "N","O","P","Q","R","S","T","U","V","W","X","Y","Z","xCF">>

LowerChar(c) ==
    IF \E k \in 1..Len(UpperLetters) : UpperLetters[k] = c
    THEN LowerLetters[CHOOSE k \in 1..Len(UpperLetters) : UpperLetters[k] = c]
    ELSE c

UpperChar(c) ==
    IF \E k \in 1..Len(LowerLetters) : LowerLetters[k] = c
    THEN UpperLetters[CHOOSE k \in 1..Len(LowerLetters) : LowerLetters[k] = c]
    ELSE c

\* str.lower()
lower(s) == [k \in 1..Len(s) |-> LowerChar(s[k])]

\* str.upper()
upper(s) == [k \in 1..Len(s) |-> UpperChar(s[k])]

\* str.strip()
strip(s) ==
    LET keep == {k \in 1..Len(s) : s[k] \notin Whitespace}
    IN  IF keep = {} THEN <<>>
        ELSE SubSeq(s, CHOOSE k \in keep : \A j \in keep : k <= j,
                       CHOOSE k \in keep : \A j \in keep : k >= j)

\* str.startswith(p)
startswith(s, p) == Len(s) >= Len(p) /\ SubSeq(s, 1, Len(p)) = p

\* s[n:]
drop(s, n) == SubSeq(s, n + 1, Len(s))

\* str.replace(" ", "")
replace_spaces(s) == SelectSeq(s, LAMBDA c : c # " ")

\* str.split(","): the pieces between commas, empty pieces kept
RECURSIVE split_comma(_)
split_comma(s) ==
    LET commas == {k \in 1..Len(s) : s[k] = ","}
    IN  IF commas = {} THEN <<s>>
        ELSE LET k == CHOOSE c \in commas : \A j \in commas : c <= j
             IN  <<SubSeq(s, 1, k - 1)>> \o split_comma(drop(s, k))

\* the elements of a list
Range(xs) == {xs[k] : k \in 1..Len(xs)}

\* the characters of the model in the order of their code points ("x60" is
\* the grave accent)
CodePoints ==
    <<"\t", "\n", "x0B", "\f", "\r", "x1C", "x1D", "x1E", "x1F", " ", "!",
      "\"", "#", "$", "%", "&", "'", "(", ")", "*", "+", ",", "-", ".", "/",
      "0", "1", "2", "3", "4", "5", "6", "7", "8", "9", ":", ";", "<", "=",
      ">", "?", "@", "A", "B", "C", "D", "E", "F", "G", "H", "I", "J", "K",
      "L", "M", "N", "O", "P", "Q", "R", "S", "T", "U", "V", "W", "X", "Y",
      "Z", "[", "\\", "]", "^", "_", "x60", "a", "b", "c", "d", "e", "f", "g",
      "h", "i", "j", "k", "l", "m", "n", "o", "p", "q", "r", "s", "t", "u",
      "v", "w", "x", "y", "z", "{", "|", "}", "~", "x85", "xA0", "xBB",
      "xBF", "xCF", "xEF", "u1680", "u2000", "u2001", "u2002", "u2003",
      "u2004", "u2005", "u2006", "u2007", "u2008", "u2009", "u200A",
      "u2028", "u2029", "u202F", "u205F", "u3000", "uFEFF", "uFF08",
      "uFF09">>

\* the place of a character in that order, as ord() orders characters
ord(c) == CHOOSE k \in 1..Len(CodePoints) : CodePoints[k] = c

\* a < b for two str: the first differing character decides, a proper prefix
\* comes first
RECURSIVE str_lt(_, _)
str_lt(a, b) ==
    IF b = <<>> THEN FALSE
    ELSE IF a = <<>> THEN TRUE
    ELSE IF Head(a) # Head(b) THEN ord(Head(a)) < ord(Head(b))
    ELSE str_lt(Tail(a), Tail(b))

\* sorted() of a set of str
RECURSIVE sorted(_)
sorted(S) ==
    IF S = {} THEN <<>>
    ELSE LET least == CHOOSE x \in S : \A y \in S \ {x} : str_lt(x, y)
         IN  <<least>> \o sorted(S \ {least})

\* the byte-order mark, decoded and as raw bytes
BomDecoded == <<"uFEFF">>
BomRaw == <<"xEF", "xBB", "xBF">>

\* the words the code compares cells against
sRef == <<"r","e","f">>
sReference == <<"r","e","f","e","r","e","n","c","e">>
sVal == <<"v","a","l">>
sPackage == <<"p","a","c","k","a","g","e">>
sDesignator == <<"d","e","s","i","g","n","a","t","o","r">>
sMidX == <<"m","i","d"," ","x">>
sMidY == <<"m","i","d"," ","y">>
sRotation == <<"r","o","t","a","t","i","o","n">>
sFootprint == <<"f","o","o","t","p","r","i","n","t">>
sValue == <<"v","a","l","u","e">>
sFID == <<"F","I","D">>
sFID01 == <<"F","I","D","0","1">>
sFID1 == <<"F","I","D","1">>
sFID02 == <<"F","I","D","0","2">>
sFID2 == <<"F","I","D","2">>

-----------------------------------------------------------------------------
(* _detect_pos_format                                                      *)

\* the nested norm of _detect_pos_format
norm_keep_case(cell) ==
    LET s0 == strip(cell)
        s1 == IF startswith(s0, BomDecoded) THEN drop(s0, 1) ELSE s0
        s2 == IF startswith(s1, BomRaw) THEN drop(s1, 3) ELSE s1
    IN  s2

norm(cell) ==
    LET s0 == lower(strip(cell))
        s1 == IF startswith(s0, BomDecoded) THEN drop(s0, 1) ELSE s0
        s2 == IF startswith(s1, BomRaw) THEN drop(s1, 3) ELSE s1
    IN  s2

_detect_pos_format(h) ==
    LET header_lower == [k \in 1..Len(h) |-> norm(h[k])]
    IN  IF /\ Len(header_lower) >= 3
           /\ header_lower[1] \in {sRef, sReference}
           /\ header_lower[2] = sVal
           /\ header_lower[3] = sPackage
        THEN "kicad_pos"
        ELSE IF /\ Len(header_lower) >= 5
                /\ header_lower[1] \in {sDesignator, sRef}
                /\ startswith(header_lower[2], sMidX)
                /\ startswith(header_lower[3], sMidY)
                /\ startswith(header_lower[4], sRotation)
        THEN "positions"
        ELSE "unknown"

-----------------------------------------------------------------------------
(* gen_components_list, collect_fid_refs                                   *)
(* A key list is modelled as the set it holds: sorted(set(...)) removes    *)
(* repeats and fixes the order, which sorted() gives back where the list   *)
(* is written out.                                                         *)

\* "<package> <val>" as the f-string at lines 71, 207 and 348 builds it
fkey(package, val) == package \o <<" ">> \o val

\* ref_upper.startswith("FID"), ref_upper = ref.upper()
is_fid_case_sensitive(ref) == startswith(ref, sFID)

is_fid(ref) == startswith(upper(ref), sFID)

\* the keys one data row adds to components in gen_components_list
gen_components_list_row(f, row) ==
    IF row = <<>> THEN {}
    ELSE IF f = "kicad_pos" THEN
        IF Len(row) < 3 THEN {}
        ELSE IF is_fid(strip(row[1])) THEN {}
        ELSE {fkey(strip(row[3]), strip(row[2]))}
    ELSE IF f = "positions" THEN
        IF Len(row) < 1 THEN {}
        ELSE IF strip(row[1]) = <<>> \/ is_fid(strip(row[1])) THEN {}
        ELSE {strip(row[1])}
    ELSE
        IF Len(row) < 3 THEN {}
        ELSE IF is_fid(strip(row[1])) THEN {}
        ELSE {strip(row[1])}

gen_components_list(file) ==
    IF file = <<>> THEN {}
    ELSE LET f == _detect_pos_format(file[1])
         IN  UNION {gen_components_list_row(f, file[k]) : k \in 2..Len(file)}

\* refs after the rows of a placement file are scanned by collect_fid_refs
RECURSIVE collect_fid_refs_rows(_, _)
collect_fid_refs_rows(refs, rows) ==
    IF rows = <<>> THEN refs
    ELSE LET row == Head(rows)
             ref == IF row = <<>> THEN <<>> ELSE strip(row[1])
         IN  IF row = <<>> \/ ref = <<>> THEN collect_fid_refs_rows(refs, Tail(rows))
             ELSE IF is_fid(ref) /\ ref \notin Range(refs)
                  THEN collect_fid_refs_rows(Append(refs, ref), Tail(rows))
                  ELSE collect_fid_refs_rows(refs, Tail(rows))

collect_fid_refs(file) ==
    IF file = <<>> THEN <<>> ELSE collect_fid_refs_rows(<<>>, Tail(file))

-----------------------------------------------------------------------------
(* gen_components_list_from_bom_and_pos                                    *)
(* A BOM mapping is a function from references to keys; m is the mapping   *)
(* itself (the caller passes it only when a BOM was read).                 *)

\* the keys one data row adds to components
gen_components_list_from_bom_and_pos_row(f, row, m) ==
    IF row = <<>> THEN {}
    ELSE LET ref == strip(row[1])
             skip == IF f = "kicad_pos"
                     THEN Len(row) < 3 \/ is_fid(ref)
                     ELSE Len(row) < 1 \/ ref = <<>> \/ is_fid(ref)
         IN  IF skip THEN {}
             ELSE LET default_key == IF f = "kicad_pos"
                                     THEN fkey(strip(row[3]), strip(row[2]))
                                     ELSE ref
                      key == IF ref \in DOMAIN m THEN m[ref] ELSE default_key
                  IN  IF key # <<>> THEN {key} ELSE {}

gen_components_list_from_bom_and_pos(file, m) ==
    IF file = <<>> THEN {}
    ELSE LET f == _detect_pos_format(file[1])
         IN  UNION {gen_components_list_from_bom_and_pos_row(f, file[k], m) :
                    k \in 2..Len(file)}

-----------------------------------------------------------------------------
(* read_bom_ref_to_component_key                                           *)

\* the nested norm of read_bom_ref_to_component_key (no lower-casing here)
bom_norm(cell) ==
    LET s0 == strip(cell)
        s1 == IF startswith(s0, BomDecoded) THEN drop(s0, 1) ELSE s0
        s2 == IF startswith(s1, BomRaw) THEN drop(s1, 3) ELSE s1
    IN  s2

\* header_norm.index(word), counted from 1; 0 stands for None (ValueError)
header_index(h, word) ==
    LET at == {k \in 1..Len(h) : lower(bom_norm(h[k])) = word}
    IN  IF at = {} THEN 0 ELSE CHOOSE k \in at : \A j \in at : k <= j

\* row[idx].strip() if idx is not None and idx < len(row) else ""
bom_cell(row, idx) == IF idx # 0 /\ idx <= Len(row) THEN strip(row[idx]) ELSE <<>>

\* [d.strip() for d in designators.replace(" ", "").split(",") if d.strip()]
bom_parts(designators) ==
    LET pieces == split_comma(replace_spaces(designators))
    IN  {strip(pieces[k]) : k \in {j \in 1..Len(pieces) : strip(pieces[j]) # <<>>}}

\* component_key = f"{footprint} {value}".strip()
bom_component_key(footprint, value) == strip(fkey(footprint, value))

\* the mapping after one data row of the file with header row h, from the
\* mapping m before it
bom_row_first_wins(m, h, row) ==
    LET idx_designator == header_index(h, sDesignator)
        designators == bom_cell(row, idx_designator)
        component_key == bom_component_key(bom_cell(row, header_index(h, sFootprint)),
                                           bom_cell(row, header_index(h, sValue)))
        parts == bom_parts(designators)
    IN  IF row = <<>> \/ idx_designator = 0 \/ designators = <<>> THEN m
        ELSE [ref \in DOMAIN m \cup parts |->
                 IF ref \in DOMAIN m THEN m[ref] ELSE component_key]

bom_row(m, h, row) ==
    LET idx_designator == header_index(h, sDesignator)
        idx_footprint == header_index(h, sFootprint)
        idx_value == header_index(h, sValue)
        designators == bom_cell(row, idx_designator)
        footprint == bom_cell(row, idx_footprint)
        value == bom_cell(row, idx_value)
        component_key == bom_component_key(footprint, value)
        parts == bom_parts(designators)
    IN  IF row = <<>> \/ idx_designator = 0 \/ designators = <<>> THEN m
        ELSE [ref \in DOMAIN m \cup parts |->
                 IF ref \in parts THEN component_key ELSE m[ref]]

\* ref_to_key = {}
EmptyMap == [ref \in {} |-> <<>>]

-----------------------------------------------------------------------------
(* gen_machine_data                                                        *)

\* the literals of lines 259-262 and 365-368
s0_00 == <<"0", ".", "0", "0">>
sHeightDefault == <<"0">>
sSpeedDefault == <<"1", "0", "0">>
sNozzleDefault == <<"1">>
NoFeeder == <<<<>>, <<>>, <<>>, <<>>>>

\* _sanitize_explanation
SanitizeChars == {"\"", "(", ")", "uFF08", "uFF09"}

_sanitize_explanation(text) == strip(SelectSeq(text, LAMBDA c : c \notin SanitizeChars))

\* mark1_ref.upper() if mark1_ref else None; <<>> stands for None
mark_ref_upper(mark_ref) == IF mark_ref # <<>> THEN upper(mark_ref) ELSE <<>>

\* the columns a data row must have before its fields are read
min_columns(f) == IF f = "positions" THEN 5 ELSE 6

\* the fields of a data row, lines 286-312
row_fields(f, row) ==
    IF f = "positions"
    THEN [ref |-> strip(row[1]), value |-> <<>>, package |-> <<>>,
          posx |-> strip(row[2]), posy |-> strip(row[3]), rot |-> strip(row[4])]
    ELSE [ref |-> strip(row[1]), value |-> strip(row[2]), package |-> strip(row[3]),
          posx |-> strip(row[4]), posy |-> strip(row[5]), rot |-> strip(row[6])]

\* which mark a row sets, lines 317-332: 1, 2, or 0 for neither
mark_of(ref_upper, mark1_ref_upper, mark2_ref_upper) ==
    IF mark1_ref_upper # <<>> /\ ref_upper = mark1_ref_upper THEN 1
    ELSE IF mark2_ref_upper # <<>> /\ ref_upper = mark2_ref_upper THEN 2
    ELSE IF mark1_ref_upper = <<>> /\ ref_upper \in {sFID01, sFID1} THEN 1
    ELSE IF mark2_ref_upper = <<>> /\ ref_upper \in {sFID02, sFID2} THEN 2
    ELSE 0

\* the assignment of a mark's coordinates, lines 318-319, 322-323, 326-327
\* and 330-331: old is the pair held, captured whether an earlier row set it
set_mark_once(old, captured, posx, posy) == IF captured THEN old ELSE <<posx, posy>>

set_mark(old, captured, posx, posy) == <<posx, posy>>

\* the component key of lines 339-348; b is [given, map], and a key of None
\* and a key of "" both fail "if not component_key"
component_key_of(f, ref, package, value, b) ==
    LET from_bom == IF b.given /\ ref \in DOMAIN b.map THEN b.map[ref] ELSE <<>>
    IN  IF from_bom = <<>>
        THEN IF f = "positions" THEN ref ELSE fkey(package, value)
        ELSE from_bom

\* cfeeders.get(component_key, ["", "", "", ""])
feeder_params_of(cf, component_key) ==
    IF component_key \in DOMAIN cf THEN cf[component_key] ELSE NoFeeder

\* rows_with_feeders += 1 when "feeder or nozzle"
counts_feeder_only(feeder, nozzle) == feeder # <<>>

\* the test made on the nozzle as written, after the default of line 367
counts_after_defaulting(feeder, nozzle) ==
    feeder # <<>> \/ (IF nozzle # <<>> THEN nozzle ELSE sNozzleDefault) # <<>>

counts_as_with_feeder(feeder, nozzle) == feeder # <<>> \/ nozzle # <<>>

\* the row written with the catalog's fields as they are, empty ones included
out_row_no_defaults(fields, feeder_params, component_key) ==
    [ref |-> fields.ref,
     n |-> feeder_params[2],
     feeder |-> feeder_params[1],
     posx |-> fields.posx, posy |-> fields.posy, rot |-> fields.rot,
     h |-> feeder_params[4],
     s |-> feeder_params[3],
     vision |-> "Accurate", check |-> "Vision",
     explanation |-> _sanitize_explanation(component_key)]

\* the row written at line 368
out_row(fields, feeder_params, component_key) ==
    [ref |-> fields.ref,
     n |-> IF feeder_params[2] # <<>> THEN feeder_params[2] ELSE sNozzleDefault,
     feeder |-> feeder_params[1],
     posx |-> fields.posx, posy |-> fields.posy, rot |-> fields.rot,
     h |-> IF feeder_params[4] # <<>> THEN feeder_params[4] ELSE sHeightDefault,
     s |-> IF feeder_params[3] # <<>> THEN feeder_params[3] ELSE sSpeedDefault,
     vision |-> "Accurate", check |-> "Vision",
     explanation |-> _sanitize_explanation(component_key)]

\* the locals of gen_machine_data before the first row, lines 259-265
machine_start ==
    [pcb_mark1 |-> <<s0_00, s0_00>>, pcb_mark2 |-> <<s0_00, s0_00>>,
     rows_total |-> 0, rows_with_feeders |-> 0,
     outfile |-> <<>>, lookups |-> <<>>, mark_hits |-> <<>>]

\* one pass of the loop at line 282: the locals after a row, from those before
\* (the row is row Len(st.mark_hits) + 2 of the file, the header being row 1)
machine_row(st, row, f, m1, m2, b, cf, skip) ==
    LET miss == [st EXCEPT !.mark_hits = Append(@, 0)]
    IN  IF row = <<>> \/ Len(row) < min_columns(f) THEN miss
        ELSE
        LET fields == row_fields(f, row)
            ref_upper == upper(fields.ref)
            mark == mark_of(ref_upper, mark_ref_upper(m1), mark_ref_upper(m2))
            component_key == component_key_of(f, fields.ref, fields.package,
                                              fields.value, b)
            feeder_params == feeder_params_of(cf, component_key)
            looked == [miss EXCEPT !.lookups =
                          Append(@, [row |-> Len(st.mark_hits) + 2,
                                     key |-> component_key])]
        IN  IF fields.ref = <<>> THEN miss
            ELSE IF mark = 1
            THEN [st EXCEPT !.pcb_mark1 = set_mark(@, 1 \in Range(st.mark_hits),
                                                   fields.posx, fields.posy),
                            !.mark_hits = Append(@, 1)]
            ELSE IF mark = 2
            THEN [st EXCEPT !.pcb_mark2 = set_mark(@, 2 \in Range(st.mark_hits),
                                                   fields.posx, fields.posy),
                            !.mark_hits = Append(@, 2)]
            ELSE IF is_fid(fields.ref) THEN miss
            ELSE IF skip /\ feeder_params[1] = <<>> THEN looked
            ELSE [looked EXCEPT
                    !.rows_total = @ + 1,
                    !.rows_with_feeders =
                        IF counts_as_with_feeder(feeder_params[1], feeder_params[2])
                        THEN @ + 1 ELSE @,
                    !.outfile = Append(@, out_row(fields, feeder_params, component_key))]

\* the locals after all the rows given
RECURSIVE machine_rows(_, _, _, _, _, _, _, _)
machine_rows(st, rows, f, m1, m2, b, cf, skip) ==
    IF rows = <<>> THEN st
    ELSE machine_rows(machine_row(st, Head(rows), f, m1, m2, b, cf, skip),
                      Tail(rows), f, m1, m2, b, cf, skip)

\* what gen_machine_data returns: None without a header row (line 274), else
\* the pair of line 373
gen_machine_data(file, cf, m1, m2, b, skip) ==
    IF file = <<>>
    THEN [kind |-> "None", rows_total |-> 0, rows_with_feeders |-> 0]
    ELSE LET st == machine_rows(machine_start, Tail(file),
                                _detect_pos_format(file[1]), m1, m2, b, cf, skip)
         IN  [kind |-> "pair", rows_total |-> st.rows_total,
              rows_with_feeders |-> st.rows_with_feeders]

-----------------------------------------------------------------------------
(* read_feeder_component_mappings                                          *)

\* [feeder, nozzle, speed, height] of a row, lines 249-252
feeder_fields(row) == <<strip(row[2]), strip(row[3]), strip(row[4]), strip(row[5])>>

\* a row that keeps the non-empty fields an earlier row gave the key
feeder_row_merge(cf, row) ==
    IF row = <<>> \/ Len(row) < 5 THEN cf
    ELSE LET key == strip(row[1])
             new == feeder_fields(row)
             old == IF key \in DOMAIN cf THEN cf[key] ELSE NoFeeder
         IN  IF key = <<>> THEN cf
             ELSE [k \in DOMAIN cf \cup {key} |->
                      IF k = key
                      THEN [c \in 1..4 |-> IF new[c] # <<>> THEN new[c] ELSE old[c]]
                      ELSE cf[k]]

\* one pass of the loop at line 242 after the first row, lines 246-254:
\* cfeeders after the row, from cfeeders before
feeder_row(cf, row) ==
    IF row = <<>> \/ Len(row) < 5 THEN cf
    ELSE LET key == strip(row[1])
         IN  IF key = <<>> THEN cf
             ELSE [k \in DOMAIN cf \cup {key} |->
                      IF k = key THEN feeder_fields(row) ELSE cf[k]]

\* cfeeders after all the rows given
RECURSIVE feeder_rows(_, _)
feeder_rows(cf, rows) ==
    IF rows = <<>> THEN cf
    ELSE feeder_rows(feeder_row(cf, Head(rows)), Tail(rows))

\* what read_feeder_component_mappings returns for a file: the first row is
\* passed over (lines 243-245), the others go through the loop body
read_feeder_component_mappings(file) ==
    IF file = <<>> THEN EmptyMap ELSE feeder_rows(EmptyMap, Tail(file))

-----------------------------------------------------------------------------
(* The export run: TVM802FeedersTemplatePlugin.Run followed by             *)
(* TVM802ActionPlugin.Run on the same placement file and BOM.              *)

\* the most data rows a placement file holds
MaxRows == 2
\* header rows of the three schemas
HeaderKicad ==
    <<<<"R", "e", "f">>,
      <<"V", "a", "l">>,
      <<"P", "a", "c", "k", "a", "g", "e">>,
      <<"X">>,
      <<"Y">>,
      <<"R", "o", "t">>>>
HeaderPositions ==
    <<<<"uFEFF", "D", "e", "s", "i", "g", "n", "a", "t", "o", "r">>,
      <<"M", "i", "d", " ", "X">>,
      <<"M", "i", "d", " ", "Y">>,
      <<"R", "o", "t", "a", "t", "i", "o", "n">>,
      <<"L">>>>
HeaderUnknown ==
    <<<<"P", "a", "r", "t">>,
      <<"V", "a", "l">>,
      <<"P", "a", "c", "k", "a", "g", "e">>,
      <<"X">>,
      <<"Y">>,
      <<"R", "o", "t">>>>
PosHeaders == {HeaderKicad, HeaderPositions, HeaderUnknown}

\* the strings of the data rows
cR1 == <<"R", "1">>
cC1 == <<"C", "1">>
cC1padded == <<" ", "C", "1">>
cFID1 == <<"F", "I", "D", "1">>
cfid1 == <<"f", "i", "d", "1">>
cFID2 == <<"F", "I", "D", "2">>
c10k == <<"1", "0", "k">>
c0402 == <<"0", "4", "0", "2">>
cRES == <<"R", "E", "S">>
c0402_10k == <<"0", "4", "0", "2", " ", "1", "0", "k">>

\* data rows: empty, too short, six columns with and without a package and
\* without a reference, and fiducials in both letter cases
PosRows ==
    { <<>>,
      <<cR1, c10k, c0402>>,
      <<cR1, c10k, c0402, <<"1">>, <<"2">>, <<"9", "0">>>>,
      <<cC1padded, c10k, <<>>, <<"3">>, <<"4">>, <<"0">>>>,
      <<<<>>, c10k, c0402, <<"3">>, <<"4">>, <<"0">>>>,
      <<cFID1, <<>>, <<>>, <<"5">>, <<"6">>, <<"0">>>>,
      <<cfid1, <<>>, <<>>, <<"7">>, <<"8">>, <<"0">>>>,
      <<cFID2, <<>>, <<>>, <<"9">>, <<"9">>, <<"0">>>> }

\* sequences over S of length at most n
SeqUpTo(S, n) == UNION {[1..k -> S] : k \in 0..n}

\* a placement file: no row at all, or a header row and at most MaxRows rows
PosFiles == {<<>>} \cup {<<h>> \o rows : h \in PosHeaders, rows \in SeqUpTo(PosRows, MaxRows)}

\* the BOM of the run: none, one that maps R1 to a key, and one that maps R1
\* to the empty key (a BOM row without footprint and value); C1 is in neither
BomMaps ==
    { [given |-> FALSE, map |-> EmptyMap],
      [given |-> TRUE, map |-> (cR1 :> cRES)],
      [given |-> TRUE, map |-> (cR1 :> <<>>)] }

\* the header row of a feeders file, as the template writer puts it (line 675)
FeederHeader ==
    <<<<"C", "o", "m", "p", "o", "n", "e", "n", "t">>,
      <<"F", "e", "e", "d", "e", "r">>,
      <<"N", "o", "z", "z", "l", "e">>,
      <<"S", "p", "e", "e", "d">>,
      <<"H", "e", "i", "g", "h", "t">>>>

\* feeders files the user keeps: one that assigns slots, and one with a nozzle
\* but no slot for one key, no slot and no nozzle for another, and no row
\* for the rest
CatalogFiles ==
    { <<FeederHeader,
        <<c0402_10k, <<"3">>, <<"2">>, <<>>, <<"1">>>>,
        <<cR1, <<"5">>, <<>>, <<>>, <<>>>>,
        <<cRES, <<"4">>, <<>>, <<>>, <<>>>>>>,
      <<FeederHeader,
        <<c0402_10k, <<>>, <<"2">>, <<>>, <<>>>>,
        <<cC1, <<>>, <<>>, <<"5", "0">>, <<>>>>>> }

\* what bom_ref_to_key can be for a placement file, lines 418-458: a
\* positions file is refused without a BOM (lines 427-433)
bom_choices(file) ==
    IF file # <<>> /\ _detect_pos_format(file[1]) = "positions"
    THEN {b \in BomMaps : b.given}
    ELSE BomMaps

\* the values of the locals of read_feeder_component_mappings before its loop
FeedersIdle == feeders_file = <<>> /\ feeders_i = 0 /\ firstline = TRUE

\* the values of the variables a run does not use
Idle ==
    /\ header = <<>> /\ detected = "" /\ bom_file = <<>> /\ bom_i = 0
    /\ ref_to_key = EmptyMap
    /\ FeedersIdle

Init ==
    /\ pc = "start"
    /\ pos_file \in PosFiles
    /\ bom_ref_to_key \in bom_choices(pos_file)
    /\ cfeeders = EmptyMap
    /\ mark1_ref = <<>> /\ mark2_ref = <<>>
    /\ skip_no_feeder = FALSE
    /\ components = {}
    /\ fid_refs = <<>>
    /\ pos_i = 0
    /\ fmt = ""
    /\ pcb_mark1 = machine_start.pcb_mark1
    /\ pcb_mark2 = machine_start.pcb_mark2
    /\ rows_total = 0
    /\ rows_with_feeders = 0
    /\ outfile = <<>>
    /\ lookups = <<>>
    /\ mark_hits = <<>>
    /\ result = [kind |-> "pending", rows_total |-> 0, rows_with_feeders |-> 0]
    /\ result_file = <<>>
    /\ Idle

\* the template generator the plugin picks, lines 669-672
template_keys(file, b) ==
    IF b.given THEN gen_components_list_from_bom_and_pos(file, b.map)
    ELSE gen_components_list(file)

\* the rows written by the loop of lines 676-677, one per key of the list
RECURSIVE template_rows(_)
template_rows(comps) ==
    IF comps = <<>> THEN <<>>
    ELSE <<<<Head(comps), <<>>, <<"1", "/", "2">>, <<"1", "0", "0">>, <<"0", ".", "5">>>>>>
         \o template_rows(Tail(comps))

\* the template file of lines 673-677: the header row, then a row per key of
\* the list the generator returned, which is sorted (lines 91 and 227)
template_file(keys) == <<FeederHeader>> \o template_rows(sorted(keys))

\* the template file once the user has put a slot in the Feeder column of
\* every row after the header, all rows kept
with_feeder_slots(file) ==
    [k \in 1..Len(file) |-> IF k = 1 THEN file[k] ELSE [file[k] EXCEPT ![2] = <<"7">>]]

\* the catalog line 521 reads when the feeders file is the filled-in template
template_catalog(keys) ==
    read_feeder_component_mappings(with_feeder_slots(template_file(keys)))

\* TVM802FeedersTemplatePlugin.Run, lines 668-677: the key list, and the
\* template file written from it
WriteTemplate ==
    /\ pc = "start"
    /\ components' = template_keys(pos_file, bom_ref_to_key)
    /\ result_file' = template_file(components')
    /\ pc' = "template"
    /\ UNCHANGED <<feeder_vars, header, detected, bom_file, bom_i, ref_to_key,
                   pos_file, bom_ref_to_key, cfeeders, mark1_ref, mark2_ref,
                   skip_no_feeder, fid_refs, pos_i, fmt, pcb_mark1, pcb_mark2,
                   rows_total, rows_with_feeders, outfile, lookups, mark_hits,
                   result>>

\* TVM802ActionPlugin.Run.  TVM802ToolsPlugin.Run starts it after the
\* template plugin, or alone, or after a template plugin that wrote nothing
\* (lines 723-726).  Each dialog it shows is a step of its own.

\* lines 461-464: the fiducials of the placement file are collected; the two
\* fiducial dialogs are shown only when there are some
CollectFidRefs ==
    /\ pc \in {"start", "template"}
    /\ fid_refs' = collect_fid_refs(pos_file)
    /\ mark1_ref' = <<>>
    /\ mark2_ref' = <<>>
    /\ pc' = IF fid_refs' # <<>> THEN "mark1" ELSE "skip"
    /\ UNCHANGED <<feeder_vars, result_file, header, detected, bom_file, bom_i,
                   ref_to_key, pos_file, bom_ref_to_key, cfeeders, skip_no_feeder,
                   components, pos_i, fmt, pcb_mark1, pcb_mark2, rows_total,
                   rows_with_feeders, outfile, lookups, mark_hits, result>>

\* lines 465-475: the dialog of mark 1; a dialog not confirmed leaves None
PickMark1 ==
    /\ pc = "mark1"
    /\ mark1_ref' \in {<<>>} \cup Range(fid_refs)
    /\ pc' = "mark2"
    /\ UNCHANGED <<feeder_vars, result_file, header, detected, bom_file, bom_i,
                   ref_to_key, pos_file, bom_ref_to_key, cfeeders, mark2_ref,
                   skip_no_feeder, components, fid_refs, pos_i, fmt, pcb_mark1,
                   pcb_mark2, rows_total, rows_with_feeders, outfile, lookups,
                   mark_hits, result>>

\* lines 477-487: the dialog of mark 2
PickMark2 ==
    /\ pc = "mark2"
    /\ mark2_ref' \in {<<>>} \cup Range(fid_refs)
    /\ pc' = "skip"
    /\ UNCHANGED <<feeder_vars, result_file, header, detected, bom_file, bom_i,
                   ref_to_key, pos_file, bom_ref_to_key, cfeeders, mark1_ref,
                   skip_no_feeder, components, fid_refs, pos_i, fmt, pcb_mark1,
                   pcb_mark2, rows_total, rows_with_feeders, outfile, lookups,
                   mark_hits, result>>

\* lines 489-500: the dialog of the skip option
AskSkip ==
    /\ pc = "skip"
    /\ skip_no_feeder' \in BOOLEAN
    /\ pc' = "feeders"
    /\ UNCHANGED <<feeder_vars, result_file, header, detected, bom_file, bom_i,
                   ref_to_key, pos_file, bom_ref_to_key, cfeeders, mark1_ref,
                   mark2_ref, components, fid_refs, pos_i, fmt, pcb_mark1,
                   pcb_mark2, rows_total, rows_with_feeders, outfile, lookups,
                   mark_hits, result>>

\* the feeders files the user can pick: the ones kept, and the template
\* written for this placement file and BOM, with its slots filled in
feeders_choices ==
    CatalogFiles \cup
    (IF result_file # <<>> THEN {with_feeder_slots(result_file)} ELSE {})

\* lines 502-506: the dialog of the feeders file, confirmed
PickFeeders ==
    /\ pc = "feeders"
    /\ feeders_file' \in feeders_choices
    /\ pc' = "output"
    /\ UNCHANGED <<feeders_i, firstline, result_file, header, detected, bom_file,
                   bom_i, ref_to_key, pos_file, bom_ref_to_key, cfeeders, mark1_ref,
                   mark2_ref, skip_no_feeder, components, fid_refs, pos_i, fmt,
                   pcb_mark1, pcb_mark2, rows_total, rows_with_feeders, outfile,
                   lookups, mark_hits, result>>

\* lines 507-508: the dialog of the feeders file, cancelled: return
CancelFeeders ==
    /\ pc = "feeders"
    /\ pc' = "cancelled"
    /\ UNCHANGED <<feeder_vars, result_file, header, detected, bom_file, bom_i,
                   ref_to_key, pos_file, bom_ref_to_key, cfeeders, mark1_ref,
                   mark2_ref, skip_no_feeder, components, fid_refs, pos_i, fmt,
                   pcb_mark1, pcb_mark2, rows_total, rows_with_feeders, outfile,
                   lookups, mark_hits, result>>

\* lines 510-516: the dialog of the output file, confirmed
PickOutput ==
    /\ pc = "output"
    /\ pc' = "read"
    /\ UNCHANGED <<feeder_vars, result_file, header, detected, bom_file, bom_i,
                   ref_to_key, pos_file, bom_ref_to_key, cfeeders, mark1_ref,
                   mark2_ref, skip_no_feeder, components, fid_refs, pos_i, fmt,
                   pcb_mark1, pcb_mark2, rows_total, rows_with_feeders, outfile,
                   lookups, mark_hits, result>>

\* lines 517-518: the dialog of the output file, cancelled: return
CancelOutput ==
    /\ pc = "output"
    /\ pc' = "cancelled"
    /\ UNCHANGED <<feeder_vars, result_file, header, detected, bom_file, bom_i,
                   ref_to_key, pos_file, bom_ref_to_key, cfeeders, mark1_ref,
                   mark2_ref, skip_no_feeder, components, fid_refs, pos_i, fmt,
                   pcb_mark1, pcb_mark2, rows_total, rows_with_feeders, outfile,
                   lookups, mark_hits, result>>

\* line 521: the feeders file is read; the locals of the reader are left as
\* they are when it returns
ReadFeeders ==
    /\ pc = "read"
    /\ cfeeders' = read_feeder_component_mappings(feeders_file)
    /\ feeders_i' = Len(feeders_file)
    /\ firstline' = (feeders_file = <<>>)
    /\ pc' = "export"
    /\ UNCHANGED <<feeders_file, result_file, header, detected, bom_file, bom_i,
                   ref_to_key, pos_file, bom_ref_to_key, mark1_ref, mark2_ref,
                   skip_no_feeder, components, fid_refs, pos_i, fmt, pcb_mark1,
                   pcb_mark2, rows_total, rows_with_feeders, outfile, lookups,
                   mark_hits, result>>

\* gen_machine_data, lines 270-274: no header row, return (None)
OpenEmpty ==
    /\ pc = "export"
    /\ pos_file = <<>>
    /\ result' = gen_machine_data(pos_file, cfeeders, mark1_ref, mark2_ref,
                                  bom_ref_to_key, skip_no_feeder)
    /\ pc' = "done"
    /\ UNCHANGED <<feeder_vars, result_file, header, detected, bom_file, bom_i, ref_to_key, pos_file,
                   bom_ref_to_key, cfeeders, mark1_ref, mark2_ref, skip_no_feeder,
                   components, fid_refs, pos_i, fmt, pcb_mark1, pcb_mark2,
                   rows_total, rows_with_feeders, outfile, lookups, mark_hits>>

\* gen_machine_data, lines 270-280: the header row is read and classified
OpenPos ==
    /\ pc = "export"
    /\ pos_file # <<>>
    /\ fmt' = _detect_pos_format(pos_file[1])
    /\ pos_i' = 1
    /\ pc' = "rows"
    /\ UNCHANGED <<feeder_vars, result_file, header, detected, bom_file, bom_i, ref_to_key, pos_file,
                   bom_ref_to_key, cfeeders, mark1_ref, mark2_ref, skip_no_feeder,
                   components, fid_refs, pcb_mark1, pcb_mark2, rows_total,
                   rows_with_feeders, outfile, lookups, mark_hits, result>>

\* the locals of gen_machine_data as one record
machine_state ==
    [pcb_mark1 |-> pcb_mark1, pcb_mark2 |-> pcb_mark2, rows_total |-> rows_total,
     rows_with_feeders |-> rows_with_feeders, outfile |-> outfile,
     lookups |-> lookups, mark_hits |-> mark_hits]

\* gen_machine_data, lines 282-368: one row of the placement file
MachineRow ==
    /\ pc = "rows"
    /\ pos_i < Len(pos_file)
    /\ LET st == machine_row(machine_state, pos_file[pos_i + 1], fmt, mark1_ref,
                             mark2_ref, bom_ref_to_key, cfeeders, skip_no_feeder)
       IN  /\ pcb_mark1' = st.pcb_mark1
           /\ pcb_mark2' = st.pcb_mark2
           /\ rows_total' = st.rows_total
           /\ rows_with_feeders' = st.rows_with_feeders
           /\ outfile' = st.outfile
           /\ lookups' = st.lookups
           /\ mark_hits' = st.mark_hits
    /\ pos_i' = pos_i + 1
    /\ UNCHANGED <<feeder_vars, result_file, pc, header, detected, bom_file, bom_i, ref_to_key, pos_file,
                   bom_ref_to_key, cfeeders, mark1_ref, mark2_ref, skip_no_feeder,
                   components, fid_refs, fmt, result>>

\* gen_machine_data, lines 370-373: the rows are exhausted, the pair is returned
MachineReturn ==
    /\ pc = "rows"
    /\ pos_i = Len(pos_file)
    /\ result' = [kind |-> "pair", rows_total |-> rows_total,
                  rows_with_feeders |-> rows_with_feeders]
    /\ pc' = "done"
    /\ UNCHANGED <<feeder_vars, result_file, header, detected, bom_file, bom_i, ref_to_key, pos_file,
                   bom_ref_to_key, cfeeders, mark1_ref, mark2_ref, skip_no_feeder,
                   components, fid_refs, pos_i, fmt, pcb_mark1, pcb_mark2,
                   rows_total, rows_with_feeders, outfile, lookups, mark_hits>>

Next ==
    \/ WriteTemplate
    \/ CollectFidRefs \/ PickMark1 \/ PickMark2 \/ AskSkip
    \/ PickFeeders \/ CancelFeeders \/ PickOutput \/ CancelOutput \/ ReadFeeders
    \/ OpenEmpty \/ OpenPos \/ MachineRow \/ MachineReturn

Spec == Init /\ [][Next]_vars

-----------------------------------------------------------------------------
(* Properties of the export run.  The vocabulary below restates the claims *)
(* over the placement file itself, without the operators of the model.     *)

\* the reference a data row carries
RowRef(row) == strip(row[1])

\* a data row whose trimmed reference, upper-cased, starts with FID
IsFiducialRow(row) == row # <<>> /\ startswith(upper(RowRef(row)), sFID)

\* the placement file without its fiducial rows
WithoutFiducials(file) ==
    IF file = <<>> THEN <<>>
    ELSE <<file[1]>> \o SelectSeq(Tail(file), LAMBDA row : ~IsFiducialRow(row))

\* the run took the default marks and does not skip unfed parts
DefaultRun == mark1_ref = <<>> /\ mark2_ref = <<>> /\ ~skip_no_feeder

\* the keys gen_machine_data looked up so far
LookedUpKeys == {lookups[k].key : k \in 1..Len(lookups)}

\* C1: matching guarantee.  When gen_machine_data has returned from a run
\* with default marks and skip_no_feeder = false, the set of keys the
\* template generator returned for the same placement file and BOM equals
\* the set of keys gen_machine_data looked up in the feeder catalog.
C1_MatchingGuarantee ==
    (pc = "done" /\ result_file # <<>> /\ DefaultRun) => components = LookedUpKeys

\* C2: fiducial exclusion.  No data row written by gen_machine_data carries
\* a reference that starts with FID (upper-cased), whatever the schema, the
\* marks, the BOM and skip_no_feeder; and the template list is the list of
\* the same placement file with its fiducial rows removed, so that no
\* fiducial row contributes a key.
C2_FiducialExclusion ==
    /\ \A k \in 1..Len(outfile) : ~startswith(upper(outfile[k].ref), sFID)
    /\ \A k \in 1..Len(lookups) : ~IsFiducialRow(pos_file[lookups[k].row])
    /\ result_file # <<>> =>
          components = template_keys(WithoutFiducials(pos_file), bom_ref_to_key)

\* C2 witness: a finished run over a file with a fiducial row long enough to
\* be parsed and consumed by gen_machine_data, beside a row that was written
\* and a key that was listed.
C2_Witness ==
    /\ pc = "done"
    /\ outfile # <<>>
    /\ components # {}
    /\ \E k \in 2..Len(pos_file) :
          /\ IsFiducialRow(pos_file[k])
          /\ Len(pos_file[k]) >= 6
          /\ k <= pos_i

\* the run of gen_machine_data on the inputs of this run, with skip_no_feeder
\* as given
RunWithSkip(skip) ==
    IF pos_file = <<>> THEN machine_start
    ELSE machine_rows(machine_start, Tail(pos_file), _detect_pos_format(pos_file[1]),
                      mark1_ref, mark2_ref, bom_ref_to_key, cfeeders, skip)

\* the rows a run wrote whose catalog entry has no feeder slot but a nozzle
NozzleOnlyRows(st) ==
    {k \in 1..Len(st.lookups) :
        /\ st.lookups[k].key \in DOMAIN cfeeders
        /\ cfeeders[st.lookups[k].key][1] = <<>>
        /\ cfeeders[st.lookups[k].key][2] # <<>>}

\* C3 as stated: on the same inputs the run with skip_no_feeder = true
\* returns a rowsTotal not above, and the same rowsWithFeeder as, the run
\* with skip_no_feeder = false.
C3_SkipKeepsWithFeeder ==
    (pc = "done" /\ result.kind = "pair") =>
        LET other == RunWithSkip(~skip_no_feeder)
            t == IF skip_no_feeder THEN result ELSE other
            f == IF skip_no_feeder THEN other ELSE result
        IN  /\ t.rows_total <= f.rows_total
            /\ t.rows_with_feeders = f.rows_with_feeders

\* C3 amended: the run with skip_no_feeder = true returns a rowsTotal not
\* above that of the run with skip_no_feeder = false, and a rowsWithFeeder
\* lower than that run's by exactly the number of rows that run wrote whose
\* catalog entry has an empty feeder slot and a non-empty nozzle.
C3_SkipLowersWithFeeder ==
    (pc = "done" /\ result.kind = "pair") =>
        LET other == RunWithSkip(~skip_no_feeder)
            t == IF skip_no_feeder THEN result ELSE other
            f == IF skip_no_feeder THEN other ELSE result
        IN  /\ t.rows_total <= f.rows_total
            /\ t.rows_with_feeders =
                 f.rows_with_feeders - Cardinality(NozzleOnlyRows(RunWithSkip(FALSE)))

\* C3 witness: a finished run with skip_no_feeder = true that dropped a row
\* the other run counts as having a feeder.
C3_Witness ==
    /\ pc = "done"
    /\ skip_no_feeder
    /\ result.kind = "pair"
    /\ NozzleOnlyRows(RunWithSkip(FALSE)) # {}
    /\ result.rows_with_feeders < RunWithSkip(FALSE).rows_with_feeders

\* the schema of the placement file of the run
FileSchema == IF pos_file = <<>> THEN "none" ELSE _detect_pos_format(pos_file[1])

\* the BOM of the run maps this reference
InBom(ref) == bom_ref_to_key.given /\ ref \in DOMAIN bom_ref_to_key.map

\* the rows the template generator reads a key from: data rows that are not
\* fiducials, with a reference, and with the columns the key is read from
TemplateRows ==
    {k \in 2..Len(pos_file) :
        /\ pos_file[k] # <<>>
        /\ ~IsFiducialRow(pos_file[k])
        /\ RowRef(pos_file[k]) # <<>>
        /\ Len(pos_file[k]) >= 3}

\* "<package> <value>" of a row, leading and trailing whitespace removed
TrimmedPackageValue(row) == strip(strip(row[3]) \o <<" ">> \o strip(row[2]))

\* C5: BOM override is unconditional.  A row whose reference the BOM maps is
\* keyed by exactly the mapped key, the empty key included: that is the key
\* gen_machine_data looks up for the row, and the template generator lists
\* the mapped key of every such row it reads.
C5_BomOverrideUnconditional ==
    /\ \A k \in 1..Len(lookups) :
          InBom(RowRef(pos_file[lookups[k].row])) =>
              lookups[k].key = bom_ref_to_key.map[RowRef(pos_file[lookups[k].row])]
    /\ result_file # <<>> =>
          \A k \in TemplateRows :
              InBom(RowRef(pos_file[k])) =>
                  bom_ref_to_key.map[RowRef(pos_file[k])] \in components

\* C6: schema-derived default key.  A row without a BOM entry is keyed by its
\* reference under the Positions schema and by the trimmed "<package>
\* <value>" under the KicadPos schema, in the lookup of gen_machine_data and
\* in the template list.
C6_DefaultKeyTrimmed ==
    /\ \A k \in 1..Len(lookups) :
          LET row == pos_file[lookups[k].row]
          IN  ~InBom(RowRef(row)) =>
                 /\ FileSchema = "positions" => lookups[k].key = RowRef(row)
                 /\ FileSchema = "kicad_pos" => lookups[k].key = TrimmedPackageValue(row)
    /\ result_file # <<>> =>
          \A k \in TemplateRows :
              ~InBom(RowRef(pos_file[k])) =>
                 /\ FileSchema = "positions" => RowRef(pos_file[k]) \in components
                 /\ FileSchema = "kicad_pos" =>
                        TrimmedPackageValue(pos_file[k]) \in components

\* C7: unknown schema fallback.  Under the Unknown schema a row without a
\* BOM entry is keyed by its reference designator, by the template generator
\* and by the feeder lookup of gen_machine_data, never by its columns 1 and 2.
C7_UnknownKeyedByReference ==
    FileSchema = "unknown" =>
        /\ \A k \in 1..Len(lookups) :
              ~InBom(RowRef(pos_file[lookups[k].row])) =>
                  lookups[k].key = RowRef(pos_file[lookups[k].row])
        /\ result_file # <<>> =>
              \A k \in TemplateRows :
                  ~InBom(RowRef(pos_file[k])) => RowRef(pos_file[k]) \in components

\* C9: empty input is a valid degenerate case.  On a placement file with no
\* rows at all the template generator and collect_fid_refs return an empty
\* list, and gen_machine_data returns the pair (0, 0).
C9_EmptyInputReturnsPair ==
    (pc = "done" /\ pos_file = <<>>) =>
        /\ components = {}
        /\ fid_refs = <<>>
        /\ gen_components_list(pos_file) = {}
        /\ gen_components_list_from_bom_and_pos(pos_file, EmptyMap) = {}
        /\ result = [kind |-> "pair", rows_total |-> 0, rows_with_feeders |-> 0]

\* a data row gen_machine_data reads fields from: long enough for the schema
\* detected (fmt), and with a reference
ParsedRow(row) ==
    /\ row # <<>>
    /\ Len(row) >= (IF fmt = "positions" THEN 5 ELSE 6)
    /\ RowRef(row) # <<>>

\* the x and y of a parsed row
RowXY(row) ==
    IF fmt = "positions" THEN <<strip(row[2]), strip(row[3])>>
    ELSE <<strip(row[4]), strip(row[5])>>

\* the upper-cased references that name mark 1 and mark 2 in this run
Mark1Names == IF mark1_ref # <<>> THEN {upper(mark1_ref)} ELSE {sFID01, sFID1}
Mark2Names == IF mark2_ref # <<>> THEN {upper(mark2_ref)} ELSE {sFID02, sFID2}

\* the row is taken for mark 1: it bears a mark-1 name, and, when mark 1 is
\* the default, it is not the explicit mark 2
TakenForMark1(row) ==
    /\ ParsedRow(row)
    /\ upper(RowRef(row)) \in Mark1Names
    /\ ~(mark1_ref = <<>> /\ mark2_ref # <<>> /\ upper(RowRef(row)) = upper(mark2_ref))

\* the row is taken for mark 2: it bears a mark-2 name and is not taken for mark 1
TakenForMark2(row) ==
    /\ ParsedRow(row)
    /\ upper(RowRef(row)) \in Mark2Names
    /\ ~TakenForMark1(row)

\* the data rows consumed so far that are taken for mark 1, for mark 2
Mark1Rows == {k \in 2..pos_i : TakenForMark1(pos_file[k])}
Mark2Rows == {k \in 2..pos_i : TakenForMark2(pos_file[k])}

\* the coordinates of the last row of ks, or 0.00, 0.00 when ks is empty
LastXY(ks) ==
    IF ks = {} THEN <<s0_00, s0_00>>
    ELSE RowXY(pos_file[CHOOSE k \in ks : \A j \in ks : j <= k])

\* C8 as stated: mark capture is first-match-wins.  Once a row has set the
\* mark-1 coordinate no later row changes it, and likewise for mark 2.
C8_FirstMatchWins ==
    [][/\ 1 \in Range(mark_hits) => pcb_mark1' = pcb_mark1
       /\ 2 \in Range(mark_hits) => pcb_mark2' = pcb_mark2]_vars

\* C8 amended: mark capture is last-match-wins.  While gen_machine_data
\* streams the rows, the mark-1 coordinate is that of the last row consumed
\* that is taken for mark 1 (a parsed row whose upper-cased reference is the
\* mark1 override, or FID01/FID1 when there is none and the row is not the
\* explicit mark2 override); the mark-2 coordinate is that of the last row
\* consumed that is taken for mark 2 (override, or FID02/FID2) and not for
\* mark 1; a mark no row was taken for is ("0.00", "0.00").
C8_LastMatchWins ==
    pc \in {"rows", "done"} /\ pos_file # <<>> =>
        /\ pcb_mark1 = LastXY(Mark1Rows)
        /\ pcb_mark2 = LastXY(Mark2Rows)

\* C8 witness: two rows with different coordinates were taken for mark 1,
\* and the mark holds those of the later one.
C8_Witness ==
    /\ pc = "done"
    /\ \E j \in Mark1Rows : \E k \in Mark1Rows :
          /\ j < k
          /\ RowXY(pos_file[j]) # RowXY(pos_file[k])
          /\ pcb_mark1 = RowXY(pos_file[k])

-----------------------------------------------------------------------------
(* Schema detection on its own: _detect_pos_format applied to a header row. *)

\* the most cells a header row holds
MaxHeaderCols == 5

\* cells of column 0 as written in the file, before any byte-order mark
HeaderCol0Plain ==
    { <<"r", "e", "f">>,
      <<"R", "e", "f", "e", "r", "e", "n", "c", "e">>,
      <<"D", "e", "s", "i", "g", "n", "a", "t", "o", "r">>,
      <<" ", "R", "e", "f">>,
      <<"P", "a", "r", "t">> }

\* the same cells, bare and behind a mark in either form
HeaderCol0 ==
    HeaderCol0Plain \cup {BomDecoded \o c : c \in HeaderCol0Plain}
                    \cup {BomRaw \o c : c \in HeaderCol0Plain}

HeaderCol1 ==
    { <<"v", "a", "l">>,
      <<"V", "a", "l", " ">>,
      <<"M", "i", "d", " ", "X">>,
      <<"m", "i", "d", " ", "x", "(", "m", "m", ")">>,
      <<"V", "a", "l", "u", "e">> }

HeaderCol2 ==
    { <<"p", "a", "c", "k", "a", "g", "e">>,
      <<"P", "a", "c", "k", "a", "g", "e">>,
      <<"M", "i", "d", " ", "Y">>,
      <<"Y">> }

HeaderCol3 ==
    { <<"R", "o", "t", "a", "t", "i", "o", "n">>,
      <<"r", "o", "t", "a", "t", "i", "o", "n", " ", "(", "d", "e", "g", ")">>,
      <<"P", "o", "s", "X">> }

HeaderFiller == <<"L">>

\* header rows: one cell per column, cut to any length up to MaxHeaderCols
Headers ==
    {SubSeq(<<c0, c1, c2, c3>> \o [k \in 1..(MaxHeaderCols - 4) |-> HeaderFiller], 1, n) :
        c0 \in HeaderCol0, c1 \in HeaderCol1, c2 \in HeaderCol2, c3 \in HeaderCol3,
        n \in 0..MaxHeaderCols}

\* the values of the variables of the export run while it is not modelled
ExportIdle ==
    /\ pos_file = <<>>
    /\ result_file = <<>>
    /\ bom_ref_to_key = [given |-> FALSE, map |-> EmptyMap]
    /\ cfeeders = EmptyMap
    /\ mark1_ref = <<>> /\ mark2_ref = <<>>
    /\ skip_no_feeder = FALSE
    /\ components = {}
    /\ fid_refs = <<>>
    /\ pos_i = 0
    /\ fmt = ""
    /\ pcb_mark1 = machine_start.pcb_mark1
    /\ pcb_mark2 = machine_start.pcb_mark2
    /\ rows_total = 0
    /\ rows_with_feeders = 0
    /\ outfile = <<>>
    /\ lookups = <<>>
    /\ mark_hits = <<>>
    /\ result = [kind |-> "pending", rows_total |-> 0, rows_with_feeders |-> 0]

InitDetect ==
    /\ pc = "detect"
    /\ header \in Headers
    /\ detected = ""
    /\ bom_file = <<>> /\ bom_i = 0 /\ ref_to_key = EmptyMap
    /\ FeedersIdle
    /\ ExportIdle

\* a caller hands the header row to _detect_pos_format
Detect ==
    /\ pc = "detect"
    /\ detected' = _detect_pos_format(header)
    /\ pc' = "detected"
    /\ UNCHANGED <<feeder_vars, result_file, header, bom_file, bom_i, ref_to_key, pos_file, bom_ref_to_key,
                   cfeeders, mark1_ref, mark2_ref, skip_no_feeder, components,
                   fid_refs, pos_i, fmt, pcb_mark1, pcb_mark2, rows_total,
                   rows_with_feeders, outfile, lookups, mark_hits, result>>

NextDetect == Detect

SpecDetect == InitDetect /\ [][NextDetect]_vars

\* a cell as the claim normalises it: trimmed, stripped of one leading mark
\* of each form, lower-cased
Normalised(cell) ==
    LET t == strip(cell)
        u == IF startswith(t, BomDecoded) THEN drop(t, 1) ELSE t
        v == IF startswith(u, BomRaw) THEN drop(u, 3) ELSE u
    IN  lower(v)

\* the schema the documented rules give a header row
RuleSchema(h) ==
    IF /\ Len(h) >= 3
       /\ Normalised(h[1]) \in {sRef, sReference}
       /\ Normalised(h[2]) = sVal
       /\ Normalised(h[3]) = sPackage
    THEN "kicad_pos"
    ELSE IF /\ Len(h) >= 5
            /\ Normalised(h[1]) \in {sDesignator, sRef}
            /\ startswith(Normalised(h[2]), sMidX)
            /\ startswith(Normalised(h[3]), sMidY)
            /\ startswith(Normalised(h[4]), sRotation)
    THEN "positions"
    ELSE "unknown"

\* the cell begins with a byte-order mark, in either form and any letter case
HasMark(cell) ==
    startswith(lower(cell), BomDecoded) \/ startswith(lower(cell), BomRaw)

\* the header with mark b put before cell k
WithMark(h, k, b) == [h EXCEPT ![k] = b \o @]

\* the result does not depend on the letter case of the cells
CaseInsensitive ==
    /\ _detect_pos_format([k \in 1..Len(header) |-> upper(header[k])]) = detected
    /\ _detect_pos_format([k \in 1..Len(header) |-> lower(header[k])]) = detected

\* C4 as stated: the header is classified by the documented rules, and the
\* result is the same in every letter case and with or without a leading
\* byte-order mark on a cell.
C4_DetectMarkInsensitive ==
    pc = "detected" =>
        /\ detected = RuleSchema(header)
        /\ CaseInsensitive
        /\ \A k \in 1..Len(header) : \A b \in {BomDecoded, BomRaw} :
              ~HasMark(header[k]) =>
                  _detect_pos_format(WithMark(header, k, b)) = detected

\* C4 amended: the header is classified by the documented rules, and the
\* result is the same in every letter case, and with or without a leading
\* byte-order mark on a cell that does not begin with whitespace (the cell
\* is trimmed before the mark is stripped and not again after it).
C4_DetectMarkInsensitiveTrimmed ==
    pc = "detected" =>
        /\ detected = RuleSchema(header)
        /\ CaseInsensitive
        /\ \A k \in 1..Len(header) : \A b \in {BomDecoded, BomRaw} :
              (~HasMark(header[k]) /\ ~startswith(header[k], <<" ">>)
                                   /\ ~startswith(header[k], <<"\t">>)) =>
                  _detect_pos_format(WithMark(header, k, b)) = detected

\* C4 witness: a header in mixed letter case whose first cell is behind a
\* byte-order mark, classified as one of the two documented schemas.
C4_Witness ==
    /\ pc = "detected"
    /\ detected = "positions"
    /\ startswith(header[1], BomDecoded)
    /\ header[1] # lower(header[1])
    /\ header[2] # sMidX

-----------------------------------------------------------------------------
(* The BOM index on its own: read_bom_ref_to_component_key, row by row.    *)

\* the most data rows a BOM file holds
MaxBomRows == 2

\* header rows: the three columns behind a byte-order mark, no footprint
\* column, the columns in another order, and no designator column
BomHeaders ==
    { <<<<"uFEFF", "D", "e", "s", "i", "g", "n", "a", "t", "o", "r">>, <<"F", "o", "o", "t", "p", "r", "i", "n", "t">>, <<"V", "a", "l", "u", "e">>>>,
      <<<<"d", "e", "s", "i", "g", "n", "a", "t", "o", "r">>, <<"V", "A", "L", "U", "E">>>>,
      <<<<"V", "a", "l", "u", "e">>, <<"F", "o", "o", "t", "p", "r", "i", "n", "t">>, <<" ", "D", "e", "s", "i", "g", "n", "a", "t", "o", "r", " ">>>>,
      <<<<"R", "e", "f">>, <<"F", "o", "o", "t", "p", "r", "i", "n", "t">>, <<"V", "a", "l", "u", "e">>>> }

\* data rows: several designators in a cell, a repeated designator without a
\* footprint, no designator, an empty row, a short row with an empty token
\* and a tab inside a designator, a cell of separators only, and a row
\* without footprint and value
BomRows ==
    { <<<<"C", "1", ",", "C", "2", ",", " ", "C", "3">>, <<"R">>, <<"1", "0", "k">>>>,
      <<<<"C", "1">>, <<>>, <<"1", "k">>>>,
      <<<<>>, <<"R">>, <<"1", "0", "k">>>>,
      <<>>,
      <<<<"C", "\t", "1", ",", ",", "C", "2", " ">>, <<"R">>>>,
      <<<<" ", ",", " ">>, <<"R">>, <<"1", "0", "k">>>>,
      <<<<"R", "1", " ", ",", "\t", "C", "3">>, <<" ">>, <<" ">>>> }

\* a BOM file: no row at all, or a header row and at most MaxBomRows rows
BomFiles ==
    {<<>>} \cup {<<h>> \o rows : h \in BomHeaders, rows \in SeqUpTo(BomRows, MaxBomRows)}

InitBom ==
    /\ pc = "bom_open"
    /\ bom_file \in BomFiles
    /\ bom_i = 0
    /\ ref_to_key = EmptyMap
    /\ header = <<>> /\ detected = ""
    /\ FeedersIdle
    /\ ExportIdle

\* lines 132-136: no header row, the empty mapping is returned
BomOpenEmpty ==
    /\ pc = "bom_open"
    /\ bom_file = <<>>
    /\ pc' = "bom_done"
    /\ UNCHANGED <<feeder_vars, result_file, header, detected, bom_file, bom_i, ref_to_key, pos_file,
                   bom_ref_to_key, cfeeders, mark1_ref, mark2_ref, skip_no_feeder,
                   components, fid_refs, pos_i, fmt, pcb_mark1, pcb_mark2,
                   rows_total, rows_with_feeders, outfile, lookups, mark_hits,
                   result>>

\* lines 132-159: the header row is read and its columns located
BomOpen ==
    /\ pc = "bom_open"
    /\ bom_file # <<>>
    /\ bom_i' = 1
    /\ pc' = "bom_rows"
    /\ UNCHANGED <<feeder_vars, result_file, header, detected, bom_file, ref_to_key, pos_file,
                   bom_ref_to_key, cfeeders, mark1_ref, mark2_ref, skip_no_feeder,
                   components, fid_refs, pos_i, fmt, pcb_mark1, pcb_mark2,
                   rows_total, rows_with_feeders, outfile, lookups, mark_hits,
                   result>>

\* lines 161-177: one data row
BomRow ==
    /\ pc = "bom_rows"
    /\ bom_i < Len(bom_file)
    /\ ref_to_key' = bom_row(ref_to_key, bom_file[1], bom_file[bom_i + 1])
    /\ bom_i' = bom_i + 1
    /\ UNCHANGED <<feeder_vars, result_file, pc, header, detected, bom_file, pos_file,
                   bom_ref_to_key, cfeeders, mark1_ref, mark2_ref, skip_no_feeder,
                   components, fid_refs, pos_i, fmt, pcb_mark1, pcb_mark2,
                   rows_total, rows_with_feeders, outfile, lookups, mark_hits,
                   result>>

\* line 178: the rows are exhausted, the mapping is returned
BomReturn ==
    /\ pc = "bom_rows"
    /\ bom_i = Len(bom_file)
    /\ pc' = "bom_done"
    /\ UNCHANGED <<feeder_vars, result_file, header, detected, bom_file, bom_i, ref_to_key, pos_file,
                   bom_ref_to_key, cfeeders, mark1_ref, mark2_ref, skip_no_feeder,
                   components, fid_refs, pos_i, fmt, pcb_mark1, pcb_mark2,
                   rows_total, rows_with_feeders, outfile, lookups, mark_hits,
                   result>>

NextBom == BomOpenEmpty \/ BomOpen \/ BomRow \/ BomReturn

SpecBom == InitBom /\ [][NextBom]_vars

\* the column of the header named word (0: none), and the trimmed cell a row
\* has in it, a missing column or cell counting as empty
BomColumn(word) ==
    IF bom_file = <<>> THEN 0
    ELSE LET at == {k \in 1..Len(bom_file[1]) : Normalised(bom_file[1][k]) = word}
         IN  IF at = {} THEN 0 ELSE CHOOSE k \in at : \A j \in at : k <= j

BomCell(row, word) ==
    IF BomColumn(word) # 0 /\ BomColumn(word) <= Len(row)
    THEN strip(row[BomColumn(word)]) ELSE <<>>

\* the key of a BOM row: "<footprint> <value>", trimmed
BomRowKey(row) ==
    strip(BomCell(row, sFootprint) \o <<" ">> \o BomCell(row, sValue))

\* the non-empty comma-separated tokens of a designator cell: with every
\* whitespace character removed (all_whitespace), or with spaces removed and
\* other whitespace trimmed from both ends of a token only
Tokens(cell, all_whitespace) ==
    {IF all_whitespace THEN SelectSeq(t, LAMBDA c : c \notin Whitespace)
                       ELSE strip(SelectSeq(t, LAMBDA c : c # " ")) :
        t \in Range(split_comma(cell))} \ {<<>>}

\* the designators the data row k lists
Listed(k, all_whitespace) == Tokens(BomCell(bom_file[k], sDesignator), all_whitespace)

\* the mapping is the one the rows consumed so far define: a designator is
\* mapped iff some row lists it, to the key of the last row that does
IndexOf(all_whitespace) ==
    LET listed == UNION {Listed(k, all_whitespace) : k \in 2..bom_i}
    IN  /\ DOMAIN ref_to_key = listed
        /\ \A d \in listed :
              LET ks == {k \in 2..bom_i : d \in Listed(k, all_whitespace)}
              IN  ref_to_key[d] = BomRowKey(bom_file[CHOOSE k \in ks : \A j \in ks : j <= k])

\* C10 as stated: every non-empty comma-separated token of a designator
\* cell, whitespace removed, is mapped to the trimmed "<footprint> <value>"
\* of the last row that lists it, and nothing else is mapped (so without a
\* designator column the mapping is empty).
C10_BomIndexWhitespace ==
    pc \in {"bom_rows", "bom_done"} =>
        /\ IndexOf(TRUE)
        /\ BomColumn(sDesignator) = 0 => ref_to_key = EmptyMap

\* C10 amended: every non-empty comma-separated token of a designator cell,
\* its spaces removed and other whitespace trimmed from its ends only, is
\* mapped to the trimmed "<footprint> <value>" of the last row that lists
\* it, and nothing else is mapped (so without a designator column the
\* mapping is empty).
C10_BomIndexSpaces ==
    pc \in {"bom_rows", "bom_done"} =>
        /\ IndexOf(FALSE)
        /\ BomColumn(sDesignator) = 0 => ref_to_key = EmptyMap

\* C10 witness: the file is read to its end, one row listed three
\* designators and a later row gave one of them another key.
C10_Witness ==
    /\ pc = "bom_done"
    /\ Cardinality(DOMAIN ref_to_key) >= 3
    /\ \E d \in DOMAIN ref_to_key : \E e \in DOMAIN ref_to_key :
          /\ ref_to_key[d] # ref_to_key[e]
          /\ \E k \in 2..bom_i : {d, e} \subseteq Listed(k, FALSE)

-----------------------------------------------------------------------------
(* The feeder catalog on its own: read_feeder_component_mappings, row by   *)
(* row.                                                                    *)

\* the most rows a feeders file holds after its first row
MaxFeederRows == 3

\* rows of a feeders file: a row padded with spaces and line ends, the same key with empty fields, a
\* row of four columns, an empty row, a row whose key is blank, and a row of
\* six columns
FeederRows ==
    { <<<<" ", "R", "1", "\n">>, <<"\r", "5">>, <<"2", " ">>, <<"1", "0", "0">>, <<"0", ".", "5">>>>,
      <<cR1, <<>>, <<>>, <<"5", "0">>, <<>>>>,
      <<cR1, <<"5">>, <<"2">>, <<"1", "0", "0">>>>,
      <<>>,
      <<<<" ">>, <<"3">>, <<"1">>, <<>>, <<>>>>,
      <<cC1, <<"7">>, <<>>, <<>>, <<"1">>, <<"x">>>> }

\* a feeders file: no row at all, or a first row (the header, or a row that
\* would be usable anywhere else, or an empty one) and at most MaxFeederRows
\* rows
FeederFiles ==
    {<<>>} \cup
    {<<h>> \o rows :
        h \in {FeederHeader, <<cC1, <<"9">>, <<"2">>, <<>>, <<>>>>, <<>>},
        rows \in SeqUpTo(FeederRows, MaxFeederRows)}

InitFeeders ==
    /\ pc = "feeders_rows"
    /\ feeders_file \in FeederFiles
    /\ feeders_i = 0
    /\ firstline = TRUE
    /\ header = <<>> /\ detected = ""
    /\ bom_file = <<>> /\ bom_i = 0 /\ ref_to_key = EmptyMap
    /\ ExportIdle

\* lines 242-254: one row of the file; the first one only clears firstline
FeedersRow ==
    /\ pc = "feeders_rows"
    /\ feeders_i < Len(feeders_file)
    /\ IF firstline
       THEN firstline' = FALSE /\ cfeeders' = cfeeders
       ELSE firstline' = firstline
            /\ cfeeders' = feeder_row(cfeeders, feeders_file[feeders_i + 1])
    /\ feeders_i' = feeders_i + 1
    /\ UNCHANGED <<pc, feeders_file, result_file, header, detected, bom_file, bom_i, ref_to_key,
                   pos_file, bom_ref_to_key, mark1_ref, mark2_ref, skip_no_feeder,
                   components, fid_refs, pos_i, fmt, pcb_mark1, pcb_mark2,
                   rows_total, rows_with_feeders, outfile, lookups, mark_hits,
                   result>>

\* line 255: the rows are exhausted, cfeeders is returned
FeedersReturn ==
    /\ pc = "feeders_rows"
    /\ feeders_i = Len(feeders_file)
    /\ pc' = "feeders_done"
    /\ UNCHANGED <<feeder_vars, result_file, header, detected, bom_file, bom_i, ref_to_key,
                   pos_file, bom_ref_to_key, cfeeders, mark1_ref, mark2_ref,
                   skip_no_feeder, components, fid_refs, pos_i, fmt, pcb_mark1,
                   pcb_mark2, rows_total, rows_with_feeders, outfile, lookups,
                   mark_hits, result>>

NextFeeders == FeedersRow \/ FeedersReturn

SpecFeeders == InitFeeders /\ [][NextFeeders]_vars

\* the rows consumed so far that the claim calls usable: after the first
\* row, with at least 5 columns and a key that is not empty once trimmed
UsableRows ==
    {k \in 2..feeders_i :
        /\ Len(feeders_file[k]) >= 5
        /\ strip(feeders_file[k][1]) # <<>>}

\* the trimmed key of a row, and its trimmed (feeder, nozzle, speed, height)
FeederKey(k) == strip(feeders_file[k][1])
FeederEntry(k) ==
    <<strip(feeders_file[k][2]), strip(feeders_file[k][3]),
      strip(feeders_file[k][4]), strip(feeders_file[k][5])>>

\* the last usable row consumed that bears the key
LastUsable(key) ==
    CHOOSE k \in UsableRows :
        /\ FeederKey(k) = key
        /\ \A j \in UsableRows : FeederKey(j) = key => j <= k

\* C11: feeder catalog construction.  While read_feeder_component_mappings
\* streams the file, the catalog holds exactly the trimmed keys of the usable
\* rows consumed (not the first row, at least 5 columns, a non-empty trimmed
\* key), and each key maps to the trimmed feeder, nozzle, speed and height
\* of the last usable row that bears it, with nothing of an earlier row.
C11_FeederCatalog ==
    pc \in {"feeders_rows", "feeders_done"} =>
        /\ DOMAIN cfeeders = {FeederKey(k) : k \in UsableRows}
        /\ \A key \in DOMAIN cfeeders : cfeeders[key] = FeederEntry(LastUsable(key))

\* C11 witness: the file was read to its end; its first row would be usable
\* anywhere else and its key is not in the catalog; and two usable rows bear
\* the same key, the later one with an empty field where the earlier one had
\* a value, and the entry has the empty field.
C11_Witness ==
    /\ pc = "feeders_done"
    /\ feeders_file # <<>>
    /\ Len(feeders_file[1]) >= 5
    /\ strip(feeders_file[1][1]) # <<>>
    /\ strip(feeders_file[1][1]) \notin DOMAIN cfeeders
    /\ \E j \in UsableRows : \E k \in UsableRows :
          /\ j < k
          /\ FeederKey(j) = FeederKey(k)
          /\ FeederEntry(j)[1] # <<>>
          /\ FeederEntry(k)[1] = <<>>
          /\ cfeeders[FeederKey(k)][1] = <<>>

-----------------------------------------------------------------------------
(* Properties of the counters and of the rows written by gen_machine_data. *)

\* what the feeder catalog holds for the key of a lookup, before any default
RawLookup(k) ==
    IF lookups[k].key \in DOMAIN cfeeders THEN cfeeders[lookups[k].key]
    ELSE <<<<>>, <<>>, <<>>, <<>>>>

\* the lookups whose row was written: all of them, or with skip_no_feeder
\* those that found a feeder slot
WrittenLookups ==
    {k \in 1..Len(lookups) : ~(skip_no_feeder /\ RawLookup(k)[1] = <<>>)}

\* the written rows whose raw lookup had a feeder slot or a nozzle
AssignedLookups ==
    {k \in WrittenLookups : RawLookup(k)[1] # <<>> \/ RawLookup(k)[2] # <<>>}

\* C12: counters of gen_machine_data.  After any number of placement rows,
\* rows_total is the number of data rows written, and rows_with_feeders is
\* the number of written rows whose raw catalog lookup had a non-empty
\* feeder slot or a non-empty nozzle, so that it never exceeds rows_total
\* and a row whose nozzle is only the default "1" is not counted; the pair
\* returned holds the two counters.
C12_Counters ==
    /\ rows_total = Len(outfile)
    /\ rows_total = Cardinality(WrittenLookups)
    /\ rows_with_feeders = Cardinality(AssignedLookups)
    /\ rows_with_feeders <= rows_total
    /\ result.kind = "pair" =>
          /\ result.rows_total = rows_total
          /\ result.rows_with_feeders = rows_with_feeders

\* C12 witness: a finished run wrote two rows, one with a raw feeder slot and
\* nozzle, and one without either, written with the default nozzle "1" and
\* left out of rows_with_feeders.
C12_Witness ==
    /\ pc = "done"
    /\ result.kind = "pair"
    /\ rows_total = 2
    /\ rows_with_feeders = 1
    /\ \E k \in WrittenLookups : RawLookup(k)[1] # <<>> /\ RawLookup(k)[2] # <<>>
    /\ \E k \in 1..Len(outfile) : outfile[k].n = sNozzleDefault /\ outfile[k].feeder = <<>>
    /\ \E k \in WrittenLookups : RawLookup(k)[1] = <<>> /\ RawLookup(k)[2] = <<>>

\* what the feeder catalog holds for a key, before any default
RawOfKey(key) ==
    IF key \in DOMAIN cfeeders THEN cfeeders[key] ELSE <<<<>>, <<>>, <<>>, <<>>>>

\* the lookups whose row was written, in the order of the rows
WrittenSeq ==
    SelectSeq(lookups, LAMBDA l : ~(skip_no_feeder /\ RawOfKey(l.key)[1] = <<>>))

\* a value, or the default in its place when it is empty
OrDefault(value, default) == IF value = <<>> THEN default ELSE value

\* the trimmed cell of a row in a column
Trimmed(row, col) == strip(row[col])

\* the columns of x, y and rotation under the schema of the file
ColX == IF FileSchema = "positions" THEN 2 ELSE 4
ColY == IF FileSchema = "positions" THEN 3 ELSE 5
ColRot == IF FileSchema = "positions" THEN 4 ELSE 6

\* the consumed rows of the placement file that are long enough for the
\* schema, carry a reference, and are not fiducials
PlacementRows ==
    {k \in 2..pos_i : ParsedRow(pos_file[k]) /\ ~IsFiducialRow(pos_file[k])}

\* C13: emission defaults.  Every data row written by gen_machine_data
\* carries the trimmed reference, x, y and rotation of its placement row,
\* the catalog nozzle or "1", the catalog height or "0", the catalog speed or
\* "100", the catalog feeder slot as it is, and the constants Accurate and
\* Vision; a row without a catalog entry has nozzle 1, height 0, speed 100
\* and an empty slot; and with skip_no_feeder = false every placement row
\* that is not a fiducial is written.
C13_EmissionDefaults ==
    /\ Len(outfile) = Len(WrittenSeq)
    /\ \A k \in 1..Len(outfile) :
          LET row == pos_file[WrittenSeq[k].row]
              raw == RawOfKey(WrittenSeq[k].key)
              out == outfile[k]
          IN  /\ out.ref = Trimmed(row, 1)
              /\ out.posx = Trimmed(row, ColX)
              /\ out.posy = Trimmed(row, ColY)
              /\ out.rot = Trimmed(row, ColRot)
              /\ out.n = OrDefault(raw[2], <<"1">>)
              /\ out.h = OrDefault(raw[4], <<"0">>)
              /\ out.s = OrDefault(raw[3], <<"1", "0", "0">>)
              /\ out.feeder = raw[1]
              /\ out.vision = "Accurate"
              /\ out.check = "Vision"
              /\ WrittenSeq[k].key \notin DOMAIN cfeeders =>
                    /\ out.n = <<"1">> /\ out.h = <<"0">>
                    /\ out.s = <<"1", "0", "0">> /\ out.feeder = <<>>
    /\ ~skip_no_feeder =>
          {WrittenSeq[k].row : k \in 1..Len(WrittenSeq)} = PlacementRows

\* C13 witness: a finished run without skip_no_feeder wrote a row that has
\* no catalog entry, with the three defaults and no slot, and a row with an
\* entry that gives a slot, a nozzle other than "1" and a height other than
\* "0", from a placement row whose reference had to be trimmed.
C13_Witness ==
    /\ pc = "done"
    /\ ~skip_no_feeder
    /\ \E k \in 1..Len(outfile) :
          /\ WrittenSeq[k].key \notin DOMAIN cfeeders
          /\ outfile[k].n = <<"1">>
          /\ pos_file[WrittenSeq[k].row][1] # outfile[k].ref
    /\ \E k \in 1..Len(outfile) :
          /\ WrittenSeq[k].key \in DOMAIN cfeeders
          /\ outfile[k].feeder # <<>>
          /\ outfile[k].n \notin {<<>>, <<"1">>}
          /\ outfile[k].h \notin {<<>>, <<"0">>}

\* the catalog of the run is the template written for its placement file and
\* BOM, read back with a slot in every row
RoundTripRun ==
    /\ pc = "done"
    /\ result.kind = "pair"
    /\ result_file # <<>>
    /\ feeders_file = with_feeder_slots(result_file)
    /\ cfeeders = template_catalog(components)

\* C14: template round trip.  When the feeder catalog is the template of the
\* same placement file and BOM, every row kept and given a feeder slot,
\* every key gen_machine_data looks up is in the catalog, and rows_with_feeders
\* equals rows_total, also for rows whose package or value is empty.
C14_TemplateRoundTrip ==
    RoundTripRun =>
        /\ \A k \in 1..Len(lookups) : lookups[k].key \in DOMAIN cfeeders
        /\ rows_with_feeders = rows_total
=============================================================================
